---- MODULE Spec2Model ----
(***************************************************************************)
(* Model of modules/today_tmp/today_tmp.py: the daily scratch directory    *)
(* tool.  The state is the filesystem under repo_path, the occupant of     *)
(* working_path, the backups made next to it, and the git HEAD snapshot.   *)
(* One action, Main, models one whole invocation of main(); the other      *)
(* actions are the environment: the user editing files, the calendar.      *)
(* A second specification, FnSpec, applies the helper functions to inputs  *)
(* main never gives them; call records the latest application.             *)
(*                                                                         *)
(* In Spec the paths are absolute (as the tool is deployed); FnSpec also    *)
(* applies ensure_symlink_to to relative paths.                            *)
(***************************************************************************)
EXTENDS Integers, Sequences, FiniteSets, TLC

VARIABLES today, repo, dirs, committed, working, backups, last, call

vars == <<today, repo, dirs, committed, working, backups, last, call>>

\* The filesystem and VCS state an invocation can change.
fsvars == <<repo, dirs, committed, working, backups>>

----------------------------------------------------------------------------
\* Bounds

\* number of calendar days the model runs through
MaxDay == 3

\* number of times a real file or directory is put at working_path
MaxBackups == 1

\* number of children of the directory a helper function is applied to
MaxChildren == 3

Days == 1..MaxDay

\* names of user files inside a day directory
Files == {"a.txt"}

----------------------------------------------------------------------------
\* Names and dates.  A file name is a tuple of numbers: a name of the shape
\* N-N-N is <<N, N, N>>, any other name is a 1-tuple (<<0>> is ".git").

PREV_LINK == "prev"

GitDir == <<0>>

None == <<>>

\* datetime.now() on the n-th day of the model: 2024-01-30, 2024-01-31,
\* 2024-02-01, ... (the month changes, so dates do not order by day field)
Now(n) == IF n <= 2 THEN <<2024, 1, 29 + n>> ELSE <<2024, 2, n - 2>>

IsLeap(y) == (y % 4 = 0 /\ y % 100 # 0) \/ y % 400 = 0

DaysInMonth(y, m) ==
    IF m = 2 THEN (IF IsLeap(y) THEN 29 ELSE 28)
    ELSE IF m \in {4, 6, 9, 11} THEN 30 ELSE 31

\* strftime(DATE_FMT): the text YYYY-MM-DD of a date
Strftime(date) == <<date[1], date[2], date[3]>>

\* strptime(name, DATE_FMT): the date, or None where it raises ValueError
Strptime(name) ==
    IF /\ Len(name) = 3
       /\ name[1] \in 1..9999
       /\ name[2] \in 1..12
       /\ name[3] \in 1..DaysInMonth(name[1], name[2])
    THEN <<name[1], name[2], name[3]>>
    ELSE None

\* datetime comparison date > latest
DateGT(a, b) ==
    \/ a[1] > b[1]
    \/ a[1] = b[1] /\ a[2] > b[2]
    \/ a[1] = b[1] /\ a[2] = b[2] /\ a[3] > b[3]

DayName(n) == Strftime(Now(n))

DayNames == {DayName(n) : n \in Days}

----------------------------------------------------------------------------
\* Occupants of a link location (working_path, or prev in a day directory)

Absent == [kind |-> "absent", dest |-> None]

Link(d) == [kind |-> "link", dest |-> d]

RealFile == [kind |-> "file", dest |-> None]

RealDir == [kind |-> "dir", dest |-> None]

NoDir == [exists |-> FALSE, content |-> {}, prev |-> Absent]

EmptyDir == [exists |-> TRUE, content |-> {}, prev |-> Absent]

\* child.iterdir() of a day directory: the names of its entries
Entries(d) == d.content \cup (IF d.prev.kind = "absent" THEN {} ELSE {PREV_LINK})

\* what git tracks of a directory: nothing of a directory without entries
Tracked(d) == IF Entries(d) = {} THEN NoDir ELSE d

\* The record of the latest invocation: whether it printed "nothing to do",
\* how it ended, which steps of the full sequence it reached, the git calls
\* it made, and whether git or the backup name made it fail.
NoRun ==
    [ran |-> FALSE, nothing |-> FALSE, err |-> "none", injected |-> FALSE,
     steps |-> {}, vcs |-> <<>>]

NoCall == [fn |-> "none"]

Init ==
    /\ today = 1
    /\ repo = "absent"
    /\ dirs = [n \in DayNames |-> NoDir]
    /\ committed = [n \in DayNames |-> NoDir]
    /\ working = Absent
    /\ backups = <<>>
    /\ last = NoRun
    /\ call = NoCall

----------------------------------------------------------------------------
\* backup_path that returns the name whether or not it is taken
BackupPathNeverRaises(taken) == FALSE

\* backup_path: the backup name is path.name plus the time to the second;
\* taken says whether something exists at that name.  TRUE: ValueError.
BackupPathRaises(taken) == taken

\* Paths.  The day name n also stands for the absolute path repo_path/n; a
\* relative path is written with the leading component RelMark, so that
\* Rel(<<>>) is "." and Rel(<<5, 7>>) is "5/7".
RelMark == -1

Rel(p) == <<RelMark>> \o p

IsAbsolute(p) == p[1] # RelMark

\* the absolute directories that hold working_path and prev
Home == <<9>>

WorkingPath == <<9, 8>>

\* path.parent / os.readlink(path): the link text taken relative to the
\* directory of the link (pathlib keeps only the right side when it is
\* absolute)
ActualDest(parent, text) ==
    IF IsAbsolute(text) THEN text ELSE parent \o Tail(text)

\* ensure_symlink_to that removes a file or directory at path instead of
\* renaming it
EnsureSymlinkToNoBackup(parent, occ, dest, taken) ==
    IF occ.kind = "link" /\ ActualDest(parent, occ.dest) = dest
    THEN [occ |-> occ, backup |-> <<>>, did_work |-> FALSE, err |-> FALSE]
    ELSE [occ |-> Link(dest), backup |-> <<>>, did_work |-> TRUE, err |-> FALSE]

\* ensure_symlink_to(path, dest), on the occupant occ of path, with parent
\* the directory path.parent.  The result: the new occupant (a link holds
\* the text dest), what was renamed to a backup, the returned flag, and
\* whether the call raised.
EnsureSymlinkTo(parent, occ, dest, taken) ==
    IF occ.kind = "link"
    THEN IF ActualDest(parent, occ.dest) = dest
         THEN [occ |-> occ, backup |-> <<>>, did_work |-> FALSE, err |-> FALSE]
         ELSE [occ |-> Link(dest), backup |-> <<>>, did_work |-> TRUE,
               err |-> FALSE]
    ELSE IF occ.kind # "absent"
    THEN IF BackupPathRaises(taken)
         THEN [occ |-> occ, backup |-> <<>>, did_work |-> FALSE, err |-> TRUE]
         ELSE [occ |-> Link(dest), backup |-> <<occ>>, did_work |-> TRUE,
               err |-> FALSE]
    ELSE [occ |-> Link(dest), backup |-> <<>>, did_work |-> TRUE, err |-> FALSE]

\* path.iterdir() of repo_path: the names of its children
Children(rp, ds) ==
    {n \in DayNames : ds[n].exists} \cup (IF rp = "git" THEN {GitDir} ELSE {})

RECURSIVE Enumerations(_)
Enumerations(S) ==
    IF S = {} THEN {<<>>}
    ELSE UNION {{<<x>> \o o : o \in Enumerations(S \ {x})} : x \in S}

OrdersOf == [S \in SUBSET DayNames |-> Enumerations(S)]

\* the orders in which iterdir() can enumerate a set of children: every
\* order of the day directories; .git, which both scans skip wherever it
\* comes, is put first
Orders(S) ==
    IF GitDir \in S
    THEN {<<GitDir>> \o o : o \in OrdersOf[S \ {GitDir}]}
    ELSE OrdersOf[S]

\* notes.txt, a regular file in repo_path
NotesFile == <<1>>

\* child.is_dir()
IsDir(child) == child # NotesFile

\* child.iterdir() of a child of repo_path
ChildEntries(ds, child) == IF child = GitDir THEN {"HEAD"} ELSE Entries(ds[child])

RECURSIVE RemoveScan(_, _, _, _)
RemoveScan(ds, order, i, other_than) ==
    IF i > Len(order)
    THEN [dirs |-> ds, err |-> FALSE]
    ELSE LET child == order[i]
             contents == {e \in ChildEntries(ds, child) : e # PREV_LINK}
         IN  IF child \in other_than
             THEN RemoveScan(ds, order, i + 1, other_than)
             ELSE IF ~IsDir(child)
             THEN RemoveScan(ds, order, i + 1, other_than)
             ELSE IF contents # {}
             THEN RemoveScan(ds, order, i + 1, other_than)
             \* child.rmdir(): OSError unless the directory has no entry
             ELSE IF ChildEntries(ds, child) # {}
             THEN [dirs |-> ds, err |-> TRUE]
             ELSE RemoveScan([ds EXCEPT ![child] = NoDir], order, i + 1,
                             other_than)

\* remove_empty_dirs that removes a child whatever it contains
RemoveEmptyDirsAnyContent(ds, order, other_than) ==
    [dirs |-> [n \in DOMAIN ds |-> IF n \in other_than THEN ds[n] ELSE NoDir],
     err |-> FALSE]

\* remove_empty_dirs without the test of other_than
RemoveEmptyDirsUnprotected(ds, order, other_than) == RemoveScan(ds, order, 1, {})

\* remove_empty_dirs(path, other_than), enumerating the children in order
RemoveEmptyDirs(ds, order, other_than) == RemoveScan(ds, order, 1, other_than)

\* git status --porcelain --untracked-files: the changed paths, as
\* <<directory, entry name>>
GitChanges(ds, cm) ==
    {p \in DayNames \X (Files \cup {PREV_LINK}) :
        IF p[2] = PREV_LINK
        THEN ds[p[1]].prev # cm[p[1]].prev
        ELSE (p[2] \in ds[p[1]].content) # (p[2] \in cm[p[1]].content)}

\* git_commit that runs git without check=True: a git call that exits
\* non-zero does not raise
GitCommitUnchecked(rp, ds, cm, fail) ==
    IF rp # "absent"
    THEN IF rp = "plain" \/ fail = "status"
         THEN [repo |-> rp, committed |-> cm, vcs |-> <<"status">>,
               err |-> FALSE]
         ELSE IF \E p \in GitChanges(ds, cm) : p[2] # PREV_LINK
         THEN [repo |-> rp,
               committed |-> IF fail \in {"add", "commit"} THEN cm
                             ELSE [n \in DayNames |-> Tracked(ds[n])],
               vcs |-> <<"status", "add", "commit">>, err |-> FALSE]
         ELSE [repo |-> rp, committed |-> cm, vcs |-> <<"status">>,
               err |-> FALSE]
    ELSE [repo |-> IF fail = "init" THEN "plain" ELSE "git", committed |-> cm,
          vcs |-> <<"init">>, err |-> FALSE]

\* git_commit that takes a pending prev for a local change
GitCommitAnyChange(rp, ds, cm, fail) ==
    IF rp # "absent"
    THEN IF rp = "plain" \/ fail = "status"
         THEN [repo |-> rp, committed |-> cm, vcs |-> <<"status">>,
               err |-> TRUE]
         ELSE IF GitChanges(ds, cm) # {}
         THEN [repo |-> rp, committed |-> [n \in DayNames |-> Tracked(ds[n])],
               vcs |-> <<"status", "add", "commit">>, err |-> FALSE]
         ELSE [repo |-> rp, committed |-> cm, vcs |-> <<"status">>,
               err |-> FALSE]
    ELSE [repo |-> "git", committed |-> cm, vcs |-> <<"init">>, err |-> FALSE]

\* git_commit(repo); fail names the git call that exits non-zero, if any.
\* git status in a directory that was never initialised exits non-zero.
GitCommit(rp, ds, cm, fail) ==
    IF rp # "absent"
    THEN IF rp = "plain" \/ fail = "status"
         THEN [repo |-> rp, committed |-> cm, vcs |-> <<"status">>,
               err |-> TRUE]
         ELSE LET changes == \E p \in GitChanges(ds, cm) : p[2] # PREV_LINK
              IN  IF changes
                  THEN IF fail = "add"
                       THEN [repo |-> rp, committed |-> cm,
                             vcs |-> <<"status", "add">>, err |-> TRUE]
                       ELSE IF fail = "commit"
                       THEN [repo |-> rp, committed |-> cm,
                             vcs |-> <<"status", "add", "commit">>,
                             err |-> TRUE]
                       ELSE [repo |-> rp,
                             committed |-> [n \in DayNames |-> Tracked(ds[n])],
                             vcs |-> <<"status", "add", "commit">>,
                             err |-> FALSE]
                  ELSE [repo |-> rp, committed |-> cm, vcs |-> <<"status">>,
                        err |-> FALSE]
    ELSE IF fail = "init"
         THEN [repo |-> "plain", committed |-> cm, vcs |-> <<"init">>,
               err |-> TRUE]
         ELSE [repo |-> "git", committed |-> cm, vcs |-> <<"init">>,
               err |-> FALSE]

Sentinel == <<1900, 1, 1>>

RECURSIVE LatestScan(_, _, _, _)
LatestScan(order, i, latest, latest_path) ==
    IF i > Len(order)
    THEN IF latest = Sentinel THEN None ELSE latest_path
    ELSE LET date == Strptime(order[i])
         IN  IF date = None
             THEN LatestScan(order, i + 1, latest, latest_path)
             ELSE IF DateGT(date, latest)
             THEN LatestScan(order, i + 1, date, order[i])
             ELSE LatestScan(order, i + 1, latest, latest_path)

Parses(name) == Strptime(name) # None

\* latest_day_dir that does not skip a name strptime rejects: with no
\* date-named child it returns the last child it enumerates
LatestDayDirAnyName(order) ==
    LET r == LatestScan(order, 1, Sentinel, None)
    IN  IF r = None /\ order # <<>> THEN order[Len(order)] ELSE r

\* latest_day_dir that keeps the last date-named child it enumerates
LatestDayDirLastSeen(order) ==
    LET parsed == SelectSeq(order, Parses)
    IN  IF parsed = <<>> THEN None ELSE parsed[Len(parsed)]

\* latest_day_dir(path), enumerating the children in order
LatestDayDir(order) == LatestScan(order, 1, Sentinel, None)

----------------------------------------------------------------------------
\* main(args): one whole invocation.  MainResults is the set of states an
\* invocation can end in (for every value of args.full in fulls and every
\* enumeration order of iterdir()), each with the record of what the
\* invocation did.

Failures == {"none", "init", "status", "add", "commit"}

Outcome(rp, ds, cm, w, bk, nothing, err, steps, vcs, inj) ==
    [repo |-> rp, dirs |-> ds, committed |-> cm, working |-> w, backups |-> bk,
     last |-> [ran |-> TRUE, nothing |-> nothing, err |-> err,
               steps |-> steps, vcs |-> vcs, injected |-> inj]]

MainResults(fail, taken, fulls) ==
    LET date == Strftime(Now(today))
        day_dir == date
        day_dir_is_ok == repo # "absent" /\ dirs[day_dir].exists
        w == EnsureSymlinkTo(Home, working, day_dir, taken)
        working_path_is_ok == w.did_work
        bk == backups \o w.backup
        nothing == day_dir_is_ok /\ working_path_is_ok
        g == GitCommit(repo, dirs, committed, fail)
        End(rp, ds, cm, err, steps, vcs) ==
            Outcome(rp, ds, cm, w.occ, bk, nothing, err, steps, vcs,
                    err = "vcs" /\ repo # "plain")
        \* lines 46-55, after remove_empty_dirs left ds and latest_day_dir
        \* returned latest
        Finish(ds, latest) ==
            LET made == IF ~day_dir_is_ok
                        THEN [ds EXCEPT ![day_dir] = EmptyDir]
                        ELSE ds
                \* working_path / PREV_LINK: prev in the directory that
                \* working_path links to
                at == w.occ.dest
                l == EnsureSymlinkTo(WorkingPath, made[at].prev, latest, taken)
                mk == IF ~day_dir_is_ok THEN {"mkdir"} ELSE {}
            IN  IF latest = None
                THEN End(g.repo, made, g.committed, "none",
                         {"commit", "prune", "latest"} \cup mk, g.vcs)
                ELSE IF l.err
                THEN End(g.repo, made, g.committed, "backup",
                         {"commit", "prune", "latest", "prev"} \cup mk, g.vcs)
                ELSE End(g.repo, [made EXCEPT ![at].prev = l.occ], g.committed,
                         "none", {"commit", "prune", "latest", "prev"} \cup mk,
                         g.vcs)
        \* lines 44-55 for every order in which the second iterdir() can
        \* enumerate the children left by remove_empty_dirs
        AfterPrune(p) ==
            IF p.err
            THEN {End(g.repo, p.dirs, g.committed, "rmdir",
                      {"commit", "prune"}, g.vcs)}
            ELSE {Finish(p.dirs, LatestDayDir(o)) :
                     o \in Orders(Children(g.repo, p.dirs))}
        \* line 42 for every order in which the first iterdir() can
        \* enumerate the children
        Pruned ==
            {RemoveEmptyDirs(dirs, o, {day_dir}) :
                o \in Orders(Children(g.repo, dirs))}
        \* lines 38-55
        FullPath ==
            IF g.err
            THEN {End(g.repo, dirs, g.committed, "vcs", {"commit"}, g.vcs)}
            ELSE UNION {AfterPrune(p) : p \in Pruned}
        \* lines 33-55
        Run(full) ==
            IF full \/ ~day_dir_is_ok \/ ~working_path_is_ok
            THEN FullPath
            ELSE {End(repo, dirs, committed, "none", {}, <<>>)}
        Raised ==
            Outcome(repo, dirs, committed, working, backups, FALSE, "backup",
                    {}, <<>>, TRUE)
    IN  IF w.err THEN {Raised} ELSE UNION {Run(full) : full \in fulls}

\* whether the invocation reaches the git call that fail names
Consulted(fail) ==
    CASE fail = "none" -> TRUE
      [] fail = "init" -> repo = "absent"
      [] fail = "status" -> repo = "git"
      [] OTHER -> /\ repo = "git"
                  /\ \E p \in GitChanges(dirs, committed) : p[2] # PREV_LINK

Main(fail, taken, fulls) ==
    /\ \E r \in MainResults(fail, taken, fulls) :
          /\ repo' = r.repo
          /\ dirs' = r.dirs
          /\ committed' = r.committed
          /\ working' = r.working
          /\ backups' = r.backups
          /\ last' = r.last
    /\ UNCHANGED <<today, call>>

----------------------------------------------------------------------------
\* The environment

\* the user creates a file through working_path
UserWrite(f) ==
    /\ working.kind = "link"
    /\ dirs[working.dest].exists
    /\ f \notin dirs[working.dest].content
    /\ dirs' = [dirs EXCEPT ![working.dest].content = @ \cup {f}]
    /\ last' = NoRun
    /\ UNCHANGED <<today, repo, committed, working, backups, call>>

\* the user deletes a file of some day
UserDelete(n, f) ==
    /\ dirs[n].exists
    /\ f \in dirs[n].content
    /\ dirs' = [dirs EXCEPT ![n].content = @ \ {f}]
    /\ last' = NoRun
    /\ UNCHANGED <<today, repo, committed, working, backups, call>>

\* something else replaces what is at working_path: a regular file, a
\* directory, or nothing
UserClobber(occ) ==
    /\ working # occ
    /\ occ.kind \in {"file", "dir"} => Len(backups) < MaxBackups
    /\ working' = occ
    /\ last' = NoRun
    /\ UNCHANGED <<today, repo, dirs, committed, backups, call>>

\* midnight
NextDay ==
    /\ today < MaxDay
    /\ today' = today + 1
    /\ last' = NoRun
    /\ UNCHANGED <<repo, dirs, committed, working, backups, call>>

\* an invocation with args.full in fulls, whatever git and the backup name
\* do
MainWith(fulls) ==
    \E fail \in Failures, taken \in BOOLEAN :
        /\ Consulted(fail)
        /\ taken => working.kind \in {"file", "dir"}
        /\ Main(fail, taken, fulls)

Next ==
    \/ MainWith(BOOLEAN)
    \/ \E f \in Files : UserWrite(f)
    \/ \E n \in DayNames, f \in Files : UserDelete(n, f)
    \/ \E occ \in {Absent, RealFile, RealDir} : UserClobber(occ)
    \/ NextDay

Spec == Init /\ [][Next]_vars

\* the timer keeps invoking the tool
FairSpec ==
    Init /\ [][Next]_vars
         /\ WF_vars(Main("none", FALSE, BOOLEAN))

----------------------------------------------------------------------------
\* The helper functions on their own

\* names a child of repo_path can have: .git, notes.txt, 2024-13-40,
\* 2023-02-29 (no such day), 2024-02-29, dates up to the sentinel of
\* latest_day_dir, and two days of the model
Names ==
    {GitDir, NotesFile, <<2024, 13, 40>>, <<2023, 2, 29>>, <<2024, 2, 29>>,
     <<1900, 1, 1>>, <<1899, 12, 31>>, <<2024, 1, 31>>, <<2024, 2, 1>>}

Listings == {S \in SUBSET Names : Cardinality(S) <= MaxChildren}

\* latest_day_dir(path) on a directory with the children S
CallLatestDayDir ==
    /\ call = NoCall
    /\ \E S \in Listings : \E o \in Enumerations(S) :
          call' = [fn |-> "latest_day_dir", children |-> S, order |-> o,
                   out |-> LatestDayDir(o)]
    /\ UNCHANGED <<today, repo, dirs, committed, working, backups, last>>

\* what a child of repo_path can be: .git, a regular file, or a day
\* directory that is empty or holds a file, a prev, or both
ChildStates(n) ==
    IF n = GitDir THEN {[exists |-> TRUE, content |-> {"HEAD"}, prev |-> Absent]}
    ELSE IF n = NotesFile THEN {EmptyDir}
    ELSE {[exists |-> TRUE, content |-> c, prev |-> p] :
             c \in SUBSET Files, p \in {Absent, Link(<<2024, 1, 30>>)}}

PruneNames == {GitDir, NotesFile, <<2024, 1, 31>>, <<2024, 2, 1>>, <<2024, 2, 29>>}

PruneListings ==
    UNION {{ds \in [S -> UNION {ChildStates(n) : n \in S}] :
               \A n \in S : ds[n] \in ChildStates(n)} :
           S \in {T \in SUBSET PruneNames : Cardinality(T) <= MaxChildren}}

\* remove_empty_dirs(path, other_than) on a directory with the children ds
CallRemoveEmptyDirs ==
    /\ call = NoCall
    /\ \E ds \in PruneListings : \E o \in Enumerations(DOMAIN ds) :
          \E other_than \in {T \in SUBSET DOMAIN ds : Cardinality(T) <= 1} :
             call' = [fn |-> "remove_empty_dirs", ds |-> ds, order |-> o,
                      other_than |-> other_than,
                      out |-> RemoveEmptyDirs(ds, o, other_than)]
    /\ UNCHANGED <<today, repo, dirs, committed, working, backups, last>>

\* directories a link can be in: ".", "5" and the absolute Home
Parents == {Rel(<<>>), Rel(<<5>>), Home}

\* destinations: repo_path/2024-01-31 with repo_path absolute, and the
\* relative path 7/2024-01-31
Dests == {<<2024, 1, 31>>, Rel(<<7, 2024, 1, 31>>)}

\* what can be at path: nothing, a regular file, a directory, a link to
\* one of the destinations or to somewhere else
Occupants ==
    {Absent, RealFile, RealDir, Link(<<2024, 1, 30>>)}
        \cup {Link(d) : d \in Dests}

\* ensure_symlink_to(path, dest), and the same call again
CallEnsureSymlinkTo ==
    /\ call = NoCall
    /\ \E parent \in Parents, occ \in Occupants, dest \in Dests,
          taken \in BOOLEAN :
          LET first == EnsureSymlinkTo(parent, occ, dest, taken)
          IN  call' = [fn |-> "ensure_symlink_to", parent |-> parent,
                       occ |-> occ, dest |-> dest, first |-> first,
                       second |-> EnsureSymlinkTo(parent, first.occ, dest,
                                                  taken)]
    /\ UNCHANGED <<today, repo, dirs, committed, working, backups, last>>

FnNext ==
    \/ CallLatestDayDir
    \/ CallRemoveEmptyDirs
    \/ CallEnsureSymlinkTo

FnSpec == Init /\ [][FnNext]_vars

TypeOK ==
    /\ today \in Days
    /\ repo \in {"absent", "plain", "git"}
    /\ working.kind \in {"absent", "link", "file", "dir"}
    /\ Len(backups) <= MaxBackups
    /\ \A n \in DayNames : ~dirs[n].exists => dirs[n] = NoDir

----------------------------------------------------------------------------
\* Claims.  A step with last'.ran is an invocation of main (the environment
\* clears last); last.ran before it says nothing changed since the previous
\* invocation.

TodayDir == DayName(today)

TodayDirExists == repo # "absent" /\ dirs[TodayDir].exists

\* C1: with the full flag false, an invocation that starts with today's
\* directory present and working_path already a symlink to it reports
\* "nothing to do", runs none of the full sequence and changes nothing.
C1_FastPathNoop ==
    [][(MainWith({FALSE}) /\ TodayDirExists /\ working = Link(TodayDir))
        => (UNCHANGED fsvars /\ last'.nothing /\ last'.steps = {})]_vars

\* the invocation got past the link of working_path (line 32 did not raise)
PastLink == last'.ran /\ ~(last'.err = "backup" /\ last'.steps = {})

\* C2: an invocation that gets past the working_path link runs the full
\* sequence whenever the full flag is set, today's directory was missing, or
\* working_path was not already a link to it.
C2_FullPathTrigger ==
    [][(/\ PastLink
        /\ \/ MainWith({TRUE})
           \/ ~TodayDirExists
           \/ working # Link(TodayDir))
        => (/\ "commit" \in last'.steps
            /\ last'.err = "none"
                  => {"commit", "prune", "latest"} \subseteq last'.steps)]_vars

\* C3: an invocation that follows a successful one, with nothing changed in
\* between, changes nothing.
C3_SecondRunNoop ==
    [][(last.ran /\ last.err = "none" /\ last'.ran) => UNCHANGED fsvars]_vars

\* C4: a prev symlink in today's directory points to a directory of a
\* strictly earlier date.
C4_PrevPointsBack ==
    (TodayDirExists /\ dirs[TodayDir].prev.kind = "link")
    => DateGT(Now(today), Strptime(dirs[TodayDir].prev.dest))

PrevOnly(d) == d.exists /\ d.content = {} /\ d.prev.kind = "link"

\* C5: when prune runs, every unprotected directory whose only entry is
\* prev is removed, and prune does not fail.
C5_PrevOnlyPruned ==
    [][(last'.ran /\ "prune" \in last'.steps)
        => \A n \in DayNames \ {TodayDir} :
              PrevOnly(dirs[n]) => (~dirs'[n].exists /\ last'.err # "rmdir")]_vars

Converged ==
    /\ last.ran
    /\ last.err = "none"
    /\ TodayDirExists
    /\ working = Link(TodayDir)

\* C6: once nothing but the tool touches the files and git and the clock
\* behave, the invocations eventually succeed for good, with today's
\* directory present and working_path linked to it.
C6_Convergence == <>[](last.ran /\ ~last.injected) => <>[]Converged

IsPrefix(s, t) == Len(s) <= Len(t) /\ SubSeq(t, 1, Len(s)) = s

\* C7: an invocation keeps every user file of every day directory, removes
\* a directory only in prune and only if it has no user file, keeps every
\* backup, and moves a real file or directory at working_path to a backup
\* or leaves it.
C7_NoDataLoss ==
    [][last'.ran =>
        /\ \A n \in DayNames :
              /\ dirs[n].content \subseteq dirs'[n].content
              /\ (dirs[n].exists /\ ~dirs'[n].exists)
                    => (dirs[n].content = {} /\ "prune" \in last'.steps)
        /\ IsPrefix(backups, backups')
        /\ working.kind \in {"file", "dir"}
              => (working' = working \/ backups' = Append(backups, working))]_vars

C7_Witness ==
    /\ last.ran
    /\ last.err = "none"
    /\ "prune" \in last.steps
    /\ backups # <<>>
    /\ \E n \in DayNames \ {TodayDir} : dirs[n].content # {}

\* C8: unless the backup name is taken, ensure_symlink_to on working_path
\* ends with working_path a symlink to the target; from a symlink or
\* nothing it makes no backup, from a file or directory it makes exactly one
\* backup, which is the original occupant.
C8_Takeover ==
    [][(last'.ran /\ ~(last'.err = "backup" /\ last'.steps = {}))
        => /\ working' = Link(TodayDir)
           /\ working.kind \in {"absent", "link"} => backups' = backups
           /\ working.kind \in {"file", "dir"}
                 => backups' = Append(backups, working)]_vars

C8_Witness ==
    /\ last.ran
    /\ backups # <<>>
    /\ backups[Len(backups)].kind = "dir"
    /\ working = Link(TodayDir)

\* C9: the first invocation on a new day, with working_path a symlink to an
\* earlier day's directory that holds uncommitted files, and no failure of
\* git, makes one commit with those files, keeps that directory, creates
\* today's directory with prev linked to the earlier one, and links
\* working_path to today's directory.
C9_Rollover ==
    [][(/\ last'.ran
        /\ ~last'.injected
        /\ ~TodayDirExists
        /\ working.kind = "link"
        /\ working.dest # TodayDir
        /\ dirs[working.dest].exists
        /\ dirs[working.dest].content # {}
        /\ dirs[working.dest].content # committed[working.dest].content)
        => (/\ last'.err = "none"
            /\ last'.vcs = <<"status", "add", "commit">>
            /\ committed'[working.dest].content = dirs[working.dest].content
            /\ dirs'[working.dest] = dirs[working.dest]
            /\ dirs'[TodayDir].exists
            /\ dirs'[TodayDir].prev = Link(working.dest)
            /\ working' = Link(TodayDir))]_vars

WithContent == {n \in DayNames : dirs[n].exists /\ dirs[n].content # {}}

MaxDate(S) == CHOOSE m \in S : \A n \in S : n = m \/ DateGT(Strptime(m), Strptime(n))

\* C10: when today's directory does not exist and there are day directories
\* with content, all dated before today, a completed invocation leaves
\* today's prev a symlink to the one of the latest date.
C10_LatestWins ==
    [][(/\ last'.ran
        /\ last'.err = "none"
        /\ ~TodayDirExists
        /\ WithContent # {}
        /\ \A n \in WithContent : DateGT(Now(today), Strptime(n)))
        => dirs'[TodayDir].prev = Link(MaxDate(WithContent))]_vars

C10_Witness ==
    /\ last.ran
    /\ last.err = "none"
    /\ "mkdir" \in last.steps
    /\ Cardinality(WithContent) >= 2
    /\ dirs[TodayDir].prev = Link(MaxDate(WithContent))

\* what git status reports: the pending entries
Pending == GitChanges(dirs, committed)

\* the number of times an invocation called git with the subcommand c
Calls(v, c) == Cardinality({i \in DOMAIN v : v[i] = c})

\* C11: in an existing repository and with no git call failing, git_commit
\* issues neither add nor commit when every pending entry is a prev, and
\* exactly one add followed by exactly one commit when some pending entry is
\* not; no invocation makes more than one commit.
C11_ChangeDetection ==
    [][last'.ran =>
        /\ Calls(last'.vcs, "commit") <= 1
        /\ ("commit" \in last'.steps /\ repo = "git" /\ last'.err # "vcs")
              => IF \A p \in Pending : p[2] = PREV_LINK
                 THEN last'.vcs = <<"status">> /\ committed' = committed
                 ELSE /\ last'.vcs = <<"status", "add", "commit">>
                      /\ committed' = [n \in DayNames |-> Tracked(dirs[n])]]_vars

C11_Witness ==
    /\ last.ran
    /\ last.err = "none"
    /\ last.vcs = <<"status">>
    /\ Pending # {}
    /\ \A p \in Pending : p[2] = PREV_LINK

\* the invocation called git_commit, and the git call f exited non-zero
GitFailed(f) ==
    /\ "commit" \in last'.steps
    /\ Consulted(f)
    /\ Main(f, FALSE, BOOLEAN)

\* C12: when a git call of git_commit (init, status, add or commit) fails,
\* the invocation ends in an error and runs none of the later steps: no
\* directory is removed, today's directory is not created, and no prev is
\* created or changed.
C12_VcsFailureAborts ==
    [][(/\ last'.ran
        /\ \/ \E f \in Failures \ {"none"} : GitFailed(f)
           \/ "commit" \in last'.steps /\ repo = "plain")
        => (/\ last'.err = "vcs"
            /\ last'.steps = {"commit"}
            /\ dirs' = dirs
            /\ committed' = committed)]_vars

C12_Witness ==
    /\ last.ran
    /\ last.err = "vcs"
    /\ last.vcs = <<"status", "add", "commit">>
    /\ ~TodayDirExists
    /\ \E n \in DayNames : dirs[n].content # committed[n].content

\* C13: when a real file or directory is at working_path and the backup
\* name is taken, the invocation fails and changes nothing: the occupant
\* stays, no backup is added or replaced, and no symlink is created.
C13_BackupCollision ==
    [][(working.kind \in {"file", "dir"} /\ Main("none", TRUE, BOOLEAN))
        => (/\ last'.err = "backup"
            /\ last'.steps = {}
            /\ working' = working
            /\ backups' = backups
            /\ UNCHANGED fsvars)]_vars

C13_Witness ==
    /\ last.ran
    /\ last.err = "backup"
    /\ last.steps = {}
    /\ working.kind = "dir"

\* C14: after every invocation that got past the link of working_path,
\* completed or aborted later, working_path is a symlink to today's
\* directory and that directory exists.
C14_WorkingResolves ==
    [][PastLink => (/\ working' = Link(TodayDir)
                    /\ repo' # "absent"
                    /\ dirs'[TodayDir].exists)]_vars

\* the children whose names parse as dates
Parsed(S) == {n \in S : Strptime(n) # None}

\* the children whose names parse as dates after the sentinel
Dated(S) == {n \in Parsed(S) : DateGT(Strptime(n), Sentinel)}

\* r is a child of S of the latest date
IsLatest(r, S) == r \in S /\ \A n \in S : ~DateGT(Strptime(n), Strptime(r))

\* C15 as stated: latest_day_dir returns nothing exactly when no child name
\* parses as a date, and otherwise a child whose date is the maximum over
\* the children whose names parse; it changes nothing.
C15_LatestAsStated ==
    [][call'.fn = "latest_day_dir" =>
        /\ (call'.out = None) <=> (Parsed(call'.children) = {})
        /\ call'.out # None => IsLatest(call'.out, Parsed(call'.children))
        /\ UNCHANGED fsvars]_vars

\* C15 amended: latest_day_dir returns nothing exactly when no child name
\* parses as a date after 1900-01-01, and otherwise a child whose date is
\* the maximum over the children whose names parse; names that do not
\* parse are ignored, and it changes nothing.
C15_LatestDayDir ==
    [][call'.fn = "latest_day_dir" =>
        /\ (call'.out = None) <=> (Dated(call'.children) = {})
        /\ call'.out # None => IsLatest(call'.out, Parsed(call'.children))
        /\ UNCHANGED fsvars]_vars

C15_Witness ==
    /\ call.fn = "latest_day_dir"
    /\ Cardinality(Parsed(call.children)) = 2
    /\ <<2023, 2, 29>> \in call.children
    /\ call.out = call.order[1]
    /\ call.out = <<2024, 2, 29>>

\* C16: an invocation with repo_path absent and nothing at working_path,
\* in which git does not fail, creates repo_path, calls git init once and
\* no other git command, creates today's directory, links working_path to
\* it, and creates no prev in today's directory.
C16_Bootstrap ==
    [][(last'.ran /\ ~last'.injected /\ repo = "absent" /\ working = Absent)
        => (/\ last'.err = "none"
            /\ repo' = "git"
            /\ last'.vcs = <<"init">>
            /\ dirs'[TodayDir] = EmptyDir
            /\ working' = Link(TodayDir)
            /\ backups' = backups)]_vars

C16_Witness ==
    /\ last.ran
    /\ last.err = "none"
    /\ last.vcs = <<"init">>
    /\ repo = "git"
    /\ dirs[TodayDir] = EmptyDir
    /\ working = Link(TodayDir)
    /\ backups = <<>>

\* the entries of a child other than prev
NonPrev(ds, n) == {e \in ChildEntries(ds, n) : e # PREV_LINK}

\* C17: remove_empty_dirs never removes a child in other_than (even an
\* empty one), never removes a directory with an entry other than prev,
\* never touches a child that is not a directory, and changes nothing but
\* by removing a child.
C17_PruneFrame ==
    [][call'.fn = "remove_empty_dirs" =>
        \A n \in DOMAIN call'.ds :
           /\ (\/ n \in call'.other_than
               \/ ~IsDir(n)
               \/ NonPrev(call'.ds, n) # {}) => call'.out.dirs[n] = call'.ds[n]
           /\ call'.out.dirs[n] \in {call'.ds[n], NoDir}]_vars

C17_Witness ==
    /\ call.fn = "remove_empty_dirs"
    /\ ~call.out.err
    /\ NotesFile \in DOMAIN call.ds
    /\ \E n \in call.other_than : call.ds[n] = EmptyDir /\ call.out.dirs[n] = EmptyDir
    /\ \E n \in DOMAIN call.ds : call.out.dirs[n] # call.ds[n]

\* C18: for every path, destination and occupant, ensure_symlink_to that
\* does not raise returns False exactly when path was already a symlink to
\* the destination, and then changes nothing; returns True exactly when it
\* made the symlink; and the same call again returns False and changes
\* nothing.
C18_EnsureIdempotent ==
    [][(call'.fn = "ensure_symlink_to" /\ ~call'.first.err) =>
        /\ ~call'.first.did_work <=> call'.occ = Link(call'.dest)
        /\ ~call'.first.did_work
              => call'.first.occ = call'.occ /\ call'.first.backup = <<>>
        /\ call'.first.did_work => call'.first.occ = Link(call'.dest)
        /\ ~call'.second.err
        /\ ~call'.second.did_work
        /\ call'.second.occ = call'.first.occ
        /\ call'.second.backup = <<>>]_vars

====
